---- MODULE Spec2Model ----
(***************************************************************************)
(* Model of review_analyzer (src/main.py): a Streamlit script that fetches *)
(* Google Maps reviews, builds a pandas table, derives charts, and sends a *)
(* two-column projection to an LLM.                                        *)
(*                                                                         *)
(* Part 1 models the data functions (process_reviews_data, create_graphs,  *)
(* the df_ai projection).  Part 2 models the script run that every user    *)
(* interaction triggers, with the session state, the files and the         *)
(* imported prompt module.                                                 *)
(***************************************************************************)
EXTENDS Integers, Sequences, FiniteSets, TLC

VARIABLES
    \* ---- data-function harness (SpecTable) ----
    reviews_data,    \* the argument of the process_reviews_data call
    now,             \* datetime.now() of the call, a day number
    draws,           \* the values random.randint(0, 730) returns, one per row
    processed,       \* the outcome of process_reviews_data: [err, df]
    star_counts,     \* create_graphs: df['stars'].value_counts().sort_index()
    df_time,         \* create_graphs: resample('M').size()
    stage,           \* which data function ran last
    \* ---- script run (SpecApp) ----
    secrets,         \* keys present in st.secrets
    session_state,   \* st.session_state: [df, data_loaded]
    files,           \* output/reviews_data.csv, output/reviews_data_ai.csv, prompt.py
    prompt_module,   \* sys.modules['prompt'].system_prompt_insight_analysis
    last_request,    \* the last client.messages.create call: [sent, system, user_message]
    saved_prompt,    \* history: the text of the last prompt save of this process
    run              \* the last script run: button, outcome, what it rendered

tableVars == <<reviews_data, now, draws, processed, star_counts, df_time, stage>>
appVars == <<secrets, session_state, files, prompt_module, last_request, saved_prompt, run>>
vars == <<reviews_data, now, draws, processed, star_counts, df_time, stage,
          secrets, session_state, files, prompt_module, last_request, saved_prompt, run>>

(***************************************************************************)
(* Bounds                                                                  *)
(***************************************************************************)
MaxRecords == 2      \* records per process_reviews_data call (SpecTable)
NumOffsets == 1      \* sampled interior values of random.randint(0, 730)
MaxFetched == 2      \* records the scraping backend returns per fetch (SpecApp)
MaxPromptLen == 2    \* characters of an edited prompt (SpecPrompt)

(***************************************************************************)
(* Cell values.  Python values of different types are kept in one record   *)
(* shape.  A string is a sequence of tokens: a digit, a quote, a backslash *)
(* and the punctuation of the file formats are tokens of their own, so     *)
(* that parsing and escaping are computed; a word without them is one      *)
(* token.                                                                  *)
(***************************************************************************)
IntV(n) == [kind |-> "int", n |-> n, s |-> <<>>]
FloatV(n) == [kind |-> "float", n |-> n, s |-> <<>>]   \* the float n.0
StrV(s) == [kind |-> "str", n |-> 0, s |-> s]
DateV(d) == [kind |-> "date", n |-> d, s |-> <<>>]
None == [kind |-> "none", n |-> 0, s |-> <<>>]
NaN == [kind |-> "nan", n |-> 0, s |-> <<>>]

\* pandas isna(): None and NaN are both missing
IsNA(v) == v.kind \in {"none", "nan"}

(***************************************************************************)
(* Raw review records: mappings field -> value returned by the scraping    *)
(* backend.  Fields may be absent or null.                                 *)
(***************************************************************************)
Great == StrV(<<"Great">>)
Bad == StrV(<<"Bad">>)
Business ==
    [title |-> StrV(<<"Cafe X">>),
     categoryName |-> StrV(<<"Cafe">>),
     reviewsCount |-> IntV(2)]

WithBusiness(r) == r @@ Business

RecGreat5 == WithBusiness([stars |-> IntV(5), text |-> Great])
RecNullText3 == WithBusiness([stars |-> IntV(3), text |-> None])
RecStr4 == WithBusiness([stars |-> StrV(<<"4">>), text |-> Bad])
RecNA == WithBusiness([stars |-> StrV(<<"N/A">>), text |-> Great])
RecNullStars == WithBusiness([stars |-> None, text |-> Great])
RecNoStars == WithBusiness([text |-> Great])
RecNoText == WithBusiness([stars |-> IntV(3)])
RecNoBusiness == [stars |-> IntV(5), text |-> Great]

RawRecords ==
    {RecGreat5, RecNullText3, RecStr4, RecNA, RecNullStars, RecNoStars, RecNoText}

SeqsUpTo(S, n) == UNION {[1..k -> S] : k \in 0..n}

(***************************************************************************)
(* pd.to_numeric on one cell (errors='raise').  Strings are parsed as      *)
(* unsigned decimal integers; every other string of the model is           *)
(* unparsable.                                                             *)
(***************************************************************************)
Digits == <<"0", "1", "2", "3", "4", "5", "6", "7", "8", "9">>

IsDigit(c) == \E i \in 1..10 : Digits[i] = c

DigitVal(c) == (CHOOSE i \in 1..10 : Digits[i] = c) - 1

RECURSIVE ParseDecimal(_)
ParseDecimal(s) ==
    IF s = <<>> THEN 0
    ELSE 10 * ParseDecimal(SubSeq(s, 1, Len(s) - 1)) + DigitVal(s[Len(s)])

CanParse(v) ==
    \/ v.kind \in {"int", "float", "none", "nan"}
    \/ v.kind = "str" /\ v.s # <<>> /\ \A i \in 1..Len(v.s) : IsDigit(v.s[i])

to_numeric_cell(v) ==
    CASE v.kind \in {"int", "float"} -> v
      [] v.kind = "str" -> IntV(ParseDecimal(v.s))
      [] OTHER -> NaN

\* A numeric column that holds a missing value is float64: its integers
\* become floats.
AsColumn(v, hasNA) == IF v.kind = "int" /\ hasNA THEN FloatV(v.n) ELSE v

(***************************************************************************)
(* pd.DataFrame(list of dicts): one row per record, columns the union of   *)
(* the keys, NaN where a record lacks the key.  A column whose present     *)
(* values are all integers is numeric: None becomes NaN in it, and the     *)
(* column is float64 when a value is missing.                              *)
(***************************************************************************)
\* Variant: the columns are taken from the first record alone
\* (pd.DataFrame(records, columns=list(records[0]))).
DataFrame_first_keys(records) ==
    LET n == Len(records)
        cols == IF n = 0 THEN {} ELSE DOMAIN records[1]
        raw(i, c) == IF c \in DOMAIN records[i] THEN records[i][c] ELSE NaN
    IN  [cols |-> cols,
         rows |-> [i \in 1..n |-> [c \in cols |-> raw(i, c)]]]

DataFrame(records) ==
    LET n == Len(records)
        cols == UNION {DOMAIN records[i] : i \in 1..n}
        raw(i, c) == IF c \in DOMAIN records[i] THEN records[i][c] ELSE NaN
        numeric(c) == /\ \A i \in 1..n : raw(i, c).kind \in {"int", "none", "nan"}
                      /\ \E i \in 1..n : raw(i, c).kind = "int"
        hasNA(c) == \E i \in 1..n : IsNA(raw(i, c))
    IN  [cols |-> cols,
         rows |-> [i \in 1..n |->
                     [c \in cols |->
                        IF numeric(c)
                        THEN (IF IsNA(raw(i, c)) THEN NaN ELSE AsColumn(raw(i, c), hasNA(c)))
                        ELSE raw(i, c)]]]

NoDF == [cols |-> {}, rows |-> <<>>]

Raise(e) == [err |-> e, df |-> NoDF]
Return(df) == [err |-> "none", df |-> df]

DaysBack == 730

\* process_reviews_data(reviews_data) with datetime.now() = day `today` and
\* random.randint(0, 730) returning offs[i] for row i.  An empty list gives
\* a DataFrame without columns, so df['stars'] raises KeyError.
process_reviews_data(records, today, offs) ==
    LET df == DataFrame(records)
        n == Len(records)
        stars(i) == to_numeric_cell(df.rows[i]["stars"])
        hasNA == \E i \in 1..n : IsNA(stars(i))
    IN  IF "stars" \notin df.cols THEN Raise("KeyError")
        ELSE IF \E i \in 1..n : ~CanParse(df.rows[i]["stars"]) THEN Raise("ValueError")
        ELSE Return(
            [cols |-> df.cols \cup {"review_date"},
             rows |-> [i \in 1..n |->
                [c \in df.cols \cup {"review_date"} |->
                    IF c = "stars" THEN AsColumn(stars(i), hasNA)
                    ELSE IF c = "review_date" THEN DateV(today - DaysBack + offs[i])
                    ELSE df.rows[i][c]]]])

(***************************************************************************)
(* Gregorian calendar arithmetic on day numbers (days since 1970-01-01),   *)
(* as pandas buckets timestamps into calendar months.                      *)
(***************************************************************************)
Civil(z) ==
    LET zz == z + 719468
        era == zz \div 146097
        doe == zz - era * 146097
        yoe == (doe - doe \div 1460 + doe \div 36524 - doe \div 146096) \div 365
        doy == doe - (365 * yoe + yoe \div 4 - yoe \div 100)
        mp == (5 * doy + 2) \div 153
        m == IF mp < 10 THEN mp + 3 ELSE mp - 9
    IN  [y |-> yoe + era * 400 + (IF m <= 2 THEN 1 ELSE 0),
         m |-> m,
         d |-> doy - (153 * mp + 2) \div 5 + 1]

\* the calendar month (year and month) of a day, as year * 12 + month - 1
MonthOf(z) == Civil(z).y * 12 + (Civil(z).m - 1)

FirstDayOf(month) ==
    LET y0 == month \div 12
        m == (month % 12) + 1
        y == IF m <= 2 THEN y0 - 1 ELSE y0
        era == y \div 400
        yoe == y - era * 400
        doy == (153 * (IF m > 2 THEN m - 3 ELSE m + 9) + 2) \div 5
        doe == yoe * 365 + yoe \div 4 - yoe \div 100 + doy
    IN  era * 146097 + doe - 719468

MonthEnd(month) == FirstDayOf(month + 1) - 1

SetMin(S) == CHOOSE x \in S : \A y \in S : x <= y
SetMax(S) == CHOOSE x \in S : \A y \in S : y <= x

RECURSIVE SortedSeq(_)
SortedSeq(S) ==
    IF S = {} THEN <<>> ELSE <<SetMin(S)>> \o SortedSeq(S \ {SetMin(S)})

Rows(df) == 1..Len(df.rows)

(***************************************************************************)
(* create_graphs                                                           *)
(***************************************************************************)
\* df[c].value_counts().sort_index(): one entry per distinct non-missing
\* value, ascending by value (value_counts drops NaN by default).
value_counts_sorted(df, c) ==
    LET present == {i \in Rows(df) : ~IsNA(df.rows[i][c])}
        index == SortedSeq({df.rows[i][c].n : i \in present})
    IN  [k \in 1..Len(index) |->
            [index |-> index[k],
             count |-> Cardinality({i \in present : df.rows[i][c].n = index[k]})]]

\* Variant: the rows are grouped by month number, whatever the year
\* (df.groupby(df['review_date'].dt.month).size()), each group labelled by
\* that month's end in the earliest row's year.
resample_by_month_number(df) ==
    LET days == {df.rows[i]["review_date"].n : i \in Rows(df)}
        numbers == SortedSeq({MonthOf(d) % 12 : d \in days})
        year == IF days = {} THEN 0 ELSE MonthOf(SetMin(days)) \div 12
    IN  [k \in 1..Len(numbers) |->
            [review_date |-> MonthEnd(year * 12 + numbers[k]),
             count |-> Cardinality({i \in Rows(df) :
                          MonthOf(df.rows[i]["review_date"].n) % 12 = numbers[k]})]]

\* df.set_index('review_date').resample('M').size(): one bin per calendar
\* month from the earliest to the latest row, labelled by the month's last
\* day, with the number of rows of that month (0 for a month without rows).
resample_month_size(df) ==
    LET months == {MonthOf(df.rows[i]["review_date"].n) : i \in Rows(df)}
    IN  IF months = {} THEN <<>>
        ELSE [k \in 1..(SetMax(months) - SetMin(months) + 1) |->
                [review_date |-> MonthEnd(SetMin(months) + k - 1),
                 count |-> Cardinality({i \in Rows(df) :
                              MonthOf(df.rows[i]["review_date"].n) = SetMin(months) + k - 1})]]

create_graphs(df) ==
    [star_counts |-> value_counts_sorted(df, "stars"),
     df_time |-> resample_month_size(df)]

(***************************************************************************)
(* df[['stars', 'text']].dropna(subset=['text'])                           *)
(***************************************************************************)
\* Variant: the projection without dropna(subset=['text']).
project_without_dropna(df) ==
    IF ~({"stars", "text"} \subseteq df.cols) THEN Raise("KeyError")
    ELSE Return([cols |-> {"stars", "text"},
                 rows |-> [k \in Rows(df) |->
                            [c \in {"stars", "text"} |-> df.rows[k][c]]]])

project_stars_text(df) ==
    IF ~({"stars", "text"} \subseteq df.cols) THEN Raise("KeyError")
    ELSE LET keep == SortedSeq({i \in Rows(df) : ~IsNA(df.rows[i]["text"])})
         IN  Return([cols |-> {"stars", "text"},
                     rows |-> [k \in 1..Len(keep) |->
                                [c \in {"stars", "text"} |-> df.rows[keep[k]][c]]]])

(***************************************************************************)
(* DataFrame.to_csv(path, index=False): a header line and one line per     *)
(* row, fields joined by commas.  Integers print in decimal, floats with   *)
(* ".0", missing values as the empty field, dates as YYYY-MM-DD (the time  *)
(* of day is not modelled).  No string of the model needs CSV quoting.     *)
(***************************************************************************)
RECURSIVE DecStr(_)
DecStr(n) ==
    IF n < 10 THEN <<Digits[n + 1]>>
    ELSE DecStr(n \div 10) \o <<Digits[(n % 10) + 1]>>

Pad2(n) == IF n < 10 THEN <<"0">> \o DecStr(n) ELSE DecStr(n)

DateStr(z) ==
    DecStr(Civil(z).y) \o <<"-">> \o Pad2(Civil(z).m) \o <<"-">> \o Pad2(Civil(z).d)

CellStr(v) ==
    CASE v.kind = "int" -> DecStr(v.n)
      [] v.kind = "float" -> DecStr(v.n) \o <<".", "0">>
      [] v.kind = "str" -> v.s
      [] v.kind = "date" -> DateStr(v.n)
      [] OTHER -> <<>>

RECURSIVE JoinFields(_)
JoinFields(fields) ==
    IF fields = <<>> THEN <<>>
    ELSE IF Len(fields) = 1 THEN fields[1]
    ELSE fields[1] \o <<",">> \o JoinFields(Tail(fields))

RECURSIVE ConcatLines(_)
ConcatLines(lines) ==
    IF lines = <<>> THEN <<>>
    ELSE lines[1] \o <<"\n">> \o ConcatLines(Tail(lines))

\* the columns of df in a fixed order (the frame's column order is the
\* order in which the backend's records first show each key)
ColumnOrder == <<"stars", "text", "title", "categoryName", "reviewsCount", "review_date">>

RECURSIVE Restrict(_, _)
Restrict(order, cols) ==
    IF order = <<>> THEN <<>>
    ELSE (IF order[1] \in cols THEN <<order[1]>> ELSE <<>>) \o Restrict(Tail(order), cols)

to_csv(df) ==
    LET order == Restrict(ColumnOrder, df.cols)
        header == JoinFields([k \in 1..Len(order) |-> <<order[k]>>])
        line(i) == JoinFields([k \in 1..Len(order) |-> CellStr(df.rows[i][order[k]])])
    IN  ConcatLines(<<header>> \o [i \in 1..Len(df.rows) |-> line(i)])

(***************************************************************************)
(* prompt.py: the save handler writes the assignment                       *)
(*     system_prompt_insight_analysis = QQQ text QQQ      (Q a quote)      *)
(* and `from prompt import system_prompt_insight_analysis` evaluates the   *)
(* file as Python source.  Prompt texts are sequences over PromptChars;    *)
(* the assignment prefix is one token.                                     *)
(***************************************************************************)
Q == "'"
BS == "\\"
AssignPrefix == "system_prompt_insight_analysis = "

format_prompt_file(text) == <<AssignPrefix, Q, Q, Q>> \o text \o <<Q, Q, Q>>

LexFail == [ok |-> FALSE, value |-> <<>>, rest |-> <<>>]

\* a backslash escape inside a string literal: an escaped backslash or quote
\* loses the backslash, an unrecognised escape keeps it
Unescape(c) == IF c \in {BS, Q} THEN <<c>> ELSE <<BS, c>>

StartsTriple(s) == Len(s) >= 3 /\ s[1] = Q /\ s[2] = Q /\ s[3] = Q

\* the body of a triple-quoted literal: up to the first three consecutive quotes
RECURSIVE LexTriple(_, _)
LexTriple(s, acc) ==
    IF s = <<>> THEN LexFail
    ELSE IF StartsTriple(s) THEN [ok |-> TRUE, value |-> acc, rest |-> SubSeq(s, 4, Len(s))]
    ELSE IF s[1] = BS
         THEN (IF Len(s) = 1 THEN LexFail
               ELSE LexTriple(SubSeq(s, 3, Len(s)), acc \o Unescape(s[2])))
    ELSE LexTriple(Tail(s), acc \o <<s[1]>>)

\* the body of a single-quoted literal: up to the first unescaped quote
RECURSIVE LexSingle(_, _)
LexSingle(s, acc) ==
    IF s = <<>> THEN LexFail
    ELSE IF s[1] = Q THEN [ok |-> TRUE, value |-> acc, rest |-> Tail(s)]
    ELSE IF s[1] = BS
         THEN (IF Len(s) = 1 THEN LexFail
               ELSE LexSingle(SubSeq(s, 3, Len(s)), acc \o Unescape(s[2])))
    ELSE LexSingle(Tail(s), acc \o <<s[1]>>)

\* adjacent string literals concatenate; anything else after a literal is
\* a syntax error
RECURSIVE LexLiterals(_, _)
LexLiterals(s, acc) ==
    IF s = <<>> THEN [ok |-> TRUE, value |-> acc, rest |-> <<>>]
    ELSE IF StartsTriple(s)
         THEN (LET t == LexTriple(SubSeq(s, 4, Len(s)), <<>>)
               IN  IF t.ok THEN LexLiterals(t.rest, acc \o t.value) ELSE LexFail)
    ELSE IF s[1] = Q
         THEN (LET t == LexSingle(Tail(s), <<>>)
               IN  IF t.ok THEN LexLiterals(t.rest, acc \o t.value) ELSE LexFail)
    ELSE LexFail

\* importing prompt.py: [ok, value]
import_prompt(content) ==
    IF Len(content) >= 4 /\ content[1] = AssignPrefix /\ StartsTriple(Tail(content))
    THEN LexLiterals(Tail(content), <<>>)
    ELSE LexFail

(***************************************************************************)
(* The script run.  Streamlit runs main.py top to bottom on every user     *)
(* interaction; a run is a chain of stages over the working state m, and   *)
(* an exception ends the run (the later stages leave m alone).             *)
(***************************************************************************)
Keys == {"APIFY_API_KEY", "ANTHROPIC_API_KEY"}

NoFile == [exists |-> FALSE, content |-> <<>>]
File(content) == [exists |-> TRUE, content |-> content]
NotLoaded == [loaded |-> FALSE, value |-> <<>>]
NoRequest == [sent |-> FALSE, system |-> <<>>, user_message |-> <<>>]
UserTemplate == "data-layout instruction"

Failed(m) == m.err # "none"
Fail(m, e, site) == [m EXCEPT !.err = e, !.at = site, !.ui = "exception"]

\* line 8: from prompt import system_prompt_insight_analysis.  The module
\* is taken from sys.modules when it is there, and prompt.py is evaluated
\* when it is not.
import_system_prompt(m) ==
    IF m.module.loaded THEN m
    ELSE LET r == import_prompt(m.files.prompt.content)
         IN  IF r.ok THEN [m EXCEPT !.module = [loaded |-> TRUE, value |-> r.value]]
             ELSE Fail(m, "SyntaxError", "import")

\* line 11: APIFY_API_KEY = st.secrets["APIFY_API_KEY"]; the run then reaches
\* the fetch button of line 101
read_apify_key(m, keys) ==
    IF Failed(m) THEN m
    ELSE IF "APIFY_API_KEY" \notin keys THEN Fail(m, "KeyError", "secrets")
    ELSE [m EXCEPT !.rendered = @ \cup {"fetch"}]

\* lines 30-44: the items of the run's dataset, in order, or the backend's error
scrape_google_maps_reviews(backend) ==
    IF backend.err # "none" THEN [err |-> backend.err, items |-> <<>>]
    ELSE [err |-> "none", items |-> backend.items]

\* Variant: st.session_state['data_loaded'] = True is set before the scrape.
fetch_handler_flag_first(m, clicked, url_given, backend, today, offs) ==
    IF Failed(m) \/ ~clicked \/ ~url_given THEN m
    ELSE LET flagged == [m EXCEPT !.ss = ("data_loaded" :> TRUE) @@ m.ss]
             scraped == scrape_google_maps_reviews(backend)
             built == process_reviews_data(scraped.items, today, offs)
         IN  IF scraped.err # "none" THEN Fail(flagged, scraped.err, "scrape")
             ELSE IF built.err # "none"
                  THEN Fail([flagged EXCEPT !.n_scraped = Len(scraped.items)],
                            built.err, "process")
             ELSE [flagged EXCEPT !.n_scraped = Len(scraped.items),
                                  !.ss = ("df" :> built.df) @@ flagged.ss]

\* lines 101-109
fetch_handler(m, clicked, url_given, backend, today, offs) ==
    IF Failed(m) \/ ~clicked \/ ~url_given THEN m
    ELSE LET scraped == scrape_google_maps_reviews(backend)
             built == process_reviews_data(scraped.items, today, offs)
         IN  IF scraped.err # "none" THEN Fail(m, scraped.err, "scrape")
             ELSE IF built.err # "none"
                  THEN Fail([m EXCEPT !.n_scraped = Len(scraped.items)], built.err, "process")
             ELSE [m EXCEPT !.n_scraped = Len(scraped.items),
                            !.ss = ("df" :> built.df) @@ ("data_loaded" :> TRUE) @@ m.ss]

\* lines 112-138 and 155-156
display_data(m) ==
    IF Failed(m) THEN m
    ELSE IF ~("data_loaded" \in DOMAIN m.ss /\ m.ss["data_loaded"])
         THEN [m EXCEPT !.ui = "info"]
    ELSE IF "df" \notin DOMAIN m.ss THEN Fail(m, "KeyError", "display")
    ELSE LET df == m.ss["df"]
             written == [m EXCEPT !.files.full = File(to_csv(df))]
         IN  IF "title" \notin df.cols THEN Fail(m, "KeyError", "display")
             ELSE IF df.rows = <<>> THEN Fail(m, "IndexError", "display")
             ELSE IF ~({"categoryName", "reviewsCount", "stars"} \subseteq df.cols)
                  THEN Fail(m, "KeyError", "display")
             ELSE IF ~({"review_date", "text"} \subseteq df.cols)
                  THEN Fail(written, "KeyError", "display")
             ELSE [written EXCEPT !.ui = "dashboard", !.rendered = @ \cup {"ai"},
                                  !.graphs = create_graphs(df)]

\* lines 76-87: one messages.create call; llm is the backend's answer
get_ai_analysis(prompt, user_message, llm) ==
    [request |-> [sent |-> TRUE, system |-> prompt, user_message |-> user_message],
     err |-> llm]

\* lines 142-154
ai_handler(m, clicked, keys, llm) ==
    IF Failed(m) \/ ~clicked \/ "ai" \notin m.rendered THEN m
    ELSE LET projected == project_stars_text(m.ss["df"])
             written == [m EXCEPT !.df_ai = projected.df,
                                  !.files.ai = File(to_csv(projected.df))]
             csv_data == written.files.ai.content
             call == get_ai_analysis(m.module.value, <<UserTemplate>> \o csv_data, llm)
             called == [written EXCEPT !.req = call.request, !.sent = @ + 1]
         IN  IF projected.err # "none" THEN Fail(m, projected.err, "projection")
             ELSE IF "ANTHROPIC_API_KEY" \notin keys
                  THEN Fail(written, "KeyError", "anthropic_key")
             ELSE IF call.err # "none" THEN Fail(called, call.err, "llm")
             ELSE [called EXCEPT !.ui = "analysis"]

\* lines 158-167
save_handler(m, clicked, edited_prompt) ==
    IF Failed(m) THEN m
    ELSE IF ~clicked THEN [m EXCEPT !.rendered = @ \cup {"save"}]
    ELSE [m EXCEPT !.rendered = @ \cup {"save"},
                   !.files.prompt = File(format_prompt_file(edited_prompt)),
                   !.saved = [saved |-> TRUE, text |-> edited_prompt]]

NoGraphs == [star_counts |-> <<>>, df_time |-> <<>>]

Begin(button, url_given) ==
    [ss |-> session_state, files |-> files, module |-> prompt_module,
     req |-> last_request, saved |-> saved_prompt,
     button |-> button, url_given |-> url_given, n_scraped |-> -1,
     err |-> "none", at |-> "none", ui |-> "blank", rendered |-> {},
     sent |-> 0, df_ai |-> NoDF, graphs |-> NoGraphs]

\* the inputs of a run that the clicked button does not read
NoBackend == [err |-> "none", items |-> <<>>]

ScriptRun(button, url_given, backend, today, offs, llm, edited_prompt) ==
    \E m1 \in {import_system_prompt(Begin(button, url_given))} :
    \E m2 \in {read_apify_key(m1, secrets)} :
    \E m3 \in {fetch_handler(m2, button = "fetch", url_given, backend, today, offs)} :
    \E m4 \in {display_data(m3)} :
    \E m5 \in {ai_handler(m4, button = "ai", secrets, llm)} :
    \E m6 \in {save_handler(m5, button = "save", edited_prompt)} :
        /\ session_state' = m6.ss
        /\ files' = m6.files
        /\ prompt_module' = m6.module
        /\ last_request' = m6.req
        /\ saved_prompt' = m6.saved
        /\ run' = [button |-> m6.button, url_given |-> m6.url_given,
                   n_scraped |-> m6.n_scraped, err |-> m6.err, at |-> m6.at,
                   ui |-> m6.ui, rendered |-> m6.rendered, sent |-> m6.sent,
                   df_ai |-> m6.df_ai, graphs |-> m6.graphs]
        /\ UNCHANGED secrets
        /\ UNCHANGED tableVars

(***************************************************************************)
(* Inputs                                                                  *)
(***************************************************************************)
\* datetime.now() samples: 2024-03-15 and 2024-12-31
Todays == {19797, 20088}

\* random.randint(0, 730) samples: both ends and interior values
Offsets == {0, DaysBack} \cup {17 * k : k \in 1..NumOffsets}

\* what the scraping backend may answer
Backends(records, n) ==
    {[err |-> "BackendError", items |-> <<>>]}
        \cup {[err |-> "none", items |-> items] : items \in SeqsUpTo(records, n)}

\* the records of the script-run specification
AppRecords == {RecGreat5, RecNullText3, RecNA}

DefaultPrompt == <<"p">>
PromptChars == {"p", BS, Q}
PromptTexts == SeqsUpTo(PromptChars, MaxPromptLen)

NotCalled == [err |-> "not called", df |-> NoDF]

NotRun ==
    [button |-> "start", url_given |-> FALSE, n_scraped |-> -1, err |-> "none",
     at |-> "none", ui |-> "blank", rendered |-> {}, sent |-> 0, df_ai |-> NoDF,
     graphs |-> NoGraphs]

(***************************************************************************)
(* The process before its first script run: lines 8-23 have not run, the   *)
(* session is empty, prompt.py holds the shipped prompt.                   *)
(***************************************************************************)
AppStart ==
    /\ session_state = <<>>
    /\ files = [full |-> NoFile, ai |-> NoFile,
                prompt |-> File(format_prompt_file(DefaultPrompt))]
    /\ prompt_module = NotLoaded
    /\ last_request = NoRequest
    /\ saved_prompt = [saved |-> FALSE, text |-> <<>>]
    /\ run = NotRun

TableIdle ==
    /\ reviews_data = <<>>
    /\ now = 0
    /\ draws = <<>>
    /\ processed = NotCalled
    /\ star_counts = <<>>
    /\ df_time = <<>>
    /\ stage = "idle"

InitApp == secrets \in SUBSET Keys /\ AppStart /\ TableIdle

\* a run without a button: the first page load, a rerun, a changed input
PageRun ==
    ScriptRun("none", FALSE, NoBackend, 0, <<>>, "none", <<>>)

\* the click on line 101's button, the URL field empty
FetchClickNoUrl ==
    /\ "fetch" \in run.rendered
    /\ ScriptRun("fetch", FALSE, NoBackend, 0, <<>>, "none", <<>>)

\* the click on line 101's button, with a URL
FetchClick(records, n) ==
    /\ "fetch" \in run.rendered
    /\ \E backend \in Backends(records, n) :
         \E offs \in [1..Len(backend.items) -> {DaysBack}] :
            ScriptRun("fetch", TRUE, backend, 19797, offs, "none", <<>>)

\* the click on line 142's button
AIClick ==
    /\ "ai" \in run.rendered
    /\ \E llm \in {"none", "BackendError"} :
         ScriptRun("ai", FALSE, NoBackend, 0, <<>>, llm, <<>>)

\* the click on line 163's button; the text area holds the imported prompt
\* or what the user typed
SaveClick(prompts) ==
    /\ "save" \in run.rendered
    /\ \E edited_prompt \in prompts \cup {prompt_module.value} :
         ScriptRun("save", FALSE, NoBackend, 0, <<>>, "none", edited_prompt)

\* Streamlit's source watcher drops a local module whose file changed from
\* sys.modules; line 8 of the next run then evaluates prompt.py again
WatcherEvictsPrompt ==
    /\ prompt_module.loaded
    /\ saved_prompt.saved
    /\ prompt_module' = NotLoaded
    /\ UNCHANGED <<secrets, session_state, files, last_request, saved_prompt, run>>
    /\ UNCHANGED tableVars

NextApp ==
    \/ PageRun
    \/ FetchClickNoUrl
    \/ FetchClick(AppRecords, MaxFetched)
    \/ AIClick
    \/ SaveClick({})

NextPrompt ==
    \/ PageRun
    \/ FetchClick({RecGreat5, RecNoText, RecNoBusiness}, 1)
    \/ AIClick
    \/ SaveClick(PromptTexts)
    \/ WatcherEvictsPrompt

\* the script runs over fetched tables; the prompt is saved as shown
SpecApp == InitApp /\ [][NextApp]_vars

\* the script runs over edited prompts and single-review tables
SpecPrompt == InitApp /\ [][NextPrompt]_vars

(***************************************************************************)
(* SpecTable: the data functions applied to bounded inputs                 *)
(***************************************************************************)
AppIdle == secrets = {} /\ AppStart

InitTable ==
    /\ AppIdle
    /\ reviews_data \in SeqsUpTo(RawRecords, MaxRecords)
    /\ now \in Todays
    /\ draws \in [1..Len(reviews_data) -> Offsets]
    /\ processed = NotCalled
    /\ star_counts = <<>>
    /\ df_time = <<>>
    /\ stage = "init"

CallProcess ==
    /\ stage = "init"
    /\ processed' = process_reviews_data(reviews_data, now, draws)
    /\ stage' = "processed"
    /\ UNCHANGED <<reviews_data, now, draws, star_counts, df_time>>
    /\ UNCHANGED appVars

CallCreateGraphs ==
    /\ stage = "processed"
    /\ processed.err = "none"
    /\ star_counts' = create_graphs(processed.df).star_counts
    /\ df_time' = create_graphs(processed.df).df_time
    /\ stage' = "graphs"
    /\ UNCHANGED <<reviews_data, now, draws, processed>>
    /\ UNCHANGED appVars

NextTable == CallProcess \/ CallCreateGraphs

SpecTable == InitTable /\ [][NextTable]_vars

(***************************************************************************)
(* Properties                                                              *)
(***************************************************************************)
RECURSIVE SumCounts(_)
SumCounts(q) == IF q = <<>> THEN 0 ELSE q[1].count + SumCounts(Tail(q))

\* a rating that is numeric or a string of decimal digits
ValidRating(r) ==
    /\ "stars" \in DOMAIN r
    /\ \/ r["stars"].kind = "int"
       \/ /\ r["stars"].kind = "str"
          /\ r["stars"].s # <<>>
          /\ \A j \in 1..Len(r["stars"].s) : IsDigit(r["stars"].s[j])

IsNumber(v) == v.kind \in {"int", "float"}

\* the cell holds the record's value: the same value, the same number, or
\* the number a numeric string spells; a null stays missing
Preserved(orig, cell) ==
    \/ orig = cell
    \/ orig.kind = "int" /\ IsNumber(cell) /\ cell.n = orig.n
    \/ orig.kind = "str" /\ IsNumber(cell) /\ DecStr(cell.n) = orig.s
    \/ IsNA(orig) /\ IsNA(cell)

\* The calendar month of a day, by walking the months from 2022-01-01
\* (day 18993) with their lengths.
IsLeap(y) == (y % 4 = 0 /\ y % 100 # 0) \/ y % 400 = 0

DaysIn(y, m) ==
    IF m = 2 THEN (IF IsLeap(y) THEN 29 ELSE 28)
    ELSE IF m \in {4, 6, 9, 11} THEN 30 ELSE 31

RECURSIVE MonthFrom(_, _, _, _)
MonthFrom(day, y, m, first) ==
    IF day < first + DaysIn(y, m) THEN y * 12 + (m - 1)
    ELSE MonthFrom(day, IF m = 12 THEN y + 1 ELSE y, IF m = 12 THEN 1 ELSE m + 1,
                   first + DaysIn(y, m))

CalendarMonth(day) == MonthFrom(day, 2022, 1, 18993)

\* the calendar months of the rows of a table, in row order
RECURSIVE RowMonths(_)
RowMonths(rows) ==
    IF rows = <<>> THEN <<>>
    ELSE <<CalendarMonth(rows[1]["review_date"].n)>> \o RowMonths(Tail(rows))

\* the calendar months of the bins' labels, in bin order
RECURSIVE BinMonths(_)
BinMonths(bins) ==
    IF bins = <<>> THEN <<>>
    ELSE <<CalendarMonth(bins[1].review_date)>> \o BinMonths(Tail(bins))

HandlerFailures == {"scrape", "process", "anthropic_key", "llm"}

\* C1: a run that fails in the fetch or the AI handler (scrape error, table
\* construction error, missing LLM key, LLM error) leaves st.session_state
\* as it was; st.session_state holds 'df' and 'data_loaded' together or
\* neither; and a fetch that completes stores the table of the scraped
\* records together with data_loaded = True.
C1_FailureLeavesSessionUntouched ==
    /\ [][run'.at \in HandlerFailures => session_state' = session_state]_vars
    /\ [](\/ DOMAIN session_state = {}
          \/ DOMAIN session_state = {"df", "data_loaded"} /\ session_state["data_loaded"])
    /\ [][(run'.button = "fetch" /\ run'.n_scraped >= 0 /\ run'.at \notin HandlerFailures)
            => /\ DOMAIN session_state' = {"df", "data_loaded"}
               /\ session_state'["data_loaded"]
               /\ Len(session_state'["df"].rows) = run'.n_scraped]_vars

\* a fetch failed in table construction while an earlier table is stored
C1_Witness ==
    /\ run.button = "fetch"
    /\ run.at = "process"
    /\ DOMAIN session_state = {"df", "data_loaded"}
    /\ Len(session_state["df"].rows) = 2

\* C2: after a fetch with a URL for which the backend returned 0 records,
\* the table was built (empty) and the page does not end in an exception.
C2_EmptyScrapeShowsNoData ==
    (run.button = "fetch" /\ run.url_given /\ run.n_scraped = 0)
        => (run.at # "process" /\ run.ui # "exception")

\* C3: when a record's rating is absent, null or not numeric,
\* process_reviews_data fails and returns no table.
C3_UnparsableRatingFails ==
    (stage # "init" /\ \E i \in 1..Len(reviews_data) : ~ValidRating(reviews_data[i]))
        => processed.err # "none"

\* C4: when a key is missing from the secret store, every script run fails
\* at its start, before a button is rendered.
C4_MissingKeyFailsAtStart ==
    (~(Keys \subseteq secrets) /\ run.button # "start")
        => (run.at = "secrets" /\ run.rendered = {})

\* C5: after a prompt save, an LLM request carries the saved text as its
\* system instruction.
C5_SavedPromptIsUsed ==
    (run.button = "ai" /\ run.sent = 1 /\ saved_prompt.saved)
        => last_request.system = saved_prompt.text

\* C6: a run of the AI handler issues exactly one LLM request, whose embedded
\* data is the content of reviews_data_ai.csv; and whenever that file exists
\* it holds what the most recent request carried.
C6_ReducedFileIsWhatWasSent ==
    /\ run.button = "ai"
         => /\ run.sent = 1
            /\ last_request.sent
            /\ last_request.user_message = <<UserTemplate>> \o files.ai.content
    /\ files.ai.exists
         => /\ last_request.sent
            /\ last_request.user_message = <<UserTemplate>> \o files.ai.content

\* C7: the projection the AI handler computes has the columns stars and
\* text and holds, in the table's order, exactly the rows whose text is not
\* null; reviews_data_ai.csv is its serialisation.
C7_ProjectionIsNonNullTextRows ==
    run.button = "ai" =>
        LET df == session_state["df"]
            p == run.df_ai
            kept == {i \in Rows(df) : ~IsNA(df.rows[i]["text"])}
        IN  /\ p.cols = {"stars", "text"}
            /\ Len(p.rows) = Cardinality(kept)
            /\ \E f \in [1..Len(p.rows) -> kept] :
                  /\ \A j, k \in 1..Len(p.rows) : j < k => f[j] < f[k]
                  /\ \A k \in 1..Len(p.rows) :
                        /\ DOMAIN p.rows[k] = {"stars", "text"}
                        /\ p.rows[k]["stars"] = df.rows[f[k]]["stars"]
                        /\ p.rows[k]["text"] = df.rows[f[k]]["text"]
            /\ files.ai = File(to_csv(p))

\* the two-record scenario: one text is null, the projection has one row
C7_Witness ==
    /\ run.button = "ai"
    /\ Len(session_state["df"].rows) = 2
    /\ IsNA(session_state["df"].rows[2]["text"])
    /\ Len(run.df_ai.rows) = 1

\* C8: the rating histogram of a non-empty table has one entry per rating
\* present, in ascending order, and its counts sum to the row count.
C8_HistogramCountsEveryRow ==
    (stage = "graphs" /\ processed.df.rows # <<>>) =>
        LET df == processed.df
        IN  /\ \A k \in 1..(Len(star_counts) - 1) :
                  star_counts[k].index < star_counts[k + 1].index
            /\ {star_counts[k].index : k \in 1..Len(star_counts)}
                  = {df.rows[i]["stars"].n : i \in {j \in Rows(df) : IsNumber(df.rows[j]["stars"])}}
            /\ SumCounts(star_counts) = Len(df.rows)

\* C9: the monthly counts of a non-empty table have strictly increasing
\* month keys, every row's month has a bucket, each bucket counts the rows
\* of its month, and the counts sum to the row count.
C9_MonthlyCountsPartitionRows ==
    (stage = "graphs" /\ processed.df.rows # <<>>) =>
        \E key \in {BinMonths(df_time)} : \E month \in {RowMonths(processed.df.rows)} :
            /\ \A k \in 1..(Len(key) - 1) : key[k] < key[k + 1]
            /\ \A i \in DOMAIN month : \E k \in DOMAIN key : key[k] = month[i]
            /\ \A k \in DOMAIN key :
                  df_time[k].count = Cardinality({i \in DOMAIN month : month[i] = key[k]})
            /\ SumCounts(df_time) = Len(processed.df.rows)

\* two rows in different months with a month without rows between them
C9_Witness ==
    /\ stage = "graphs"
    /\ Len(processed.df.rows) = 2
    /\ Len(df_time) > 2
    /\ \E k \in 1..Len(df_time) : df_time[k].count = 0

\* C10: for a non-empty input whose ratings are all numeric,
\* process_reviews_data returns a table with one row per record in input
\* order, every field of every record kept, and review_date the only
\* column added.
C10_RowsAndFieldsPreserved ==
    (/\ stage # "init"
     /\ reviews_data # <<>>
     /\ \A i \in 1..Len(reviews_data) : ValidRating(reviews_data[i]))
        => /\ processed.err = "none"
           /\ Len(processed.df.rows) = Len(reviews_data)
           /\ processed.df.cols =
                 UNION {DOMAIN reviews_data[i] : i \in 1..Len(reviews_data)}
                    \cup {"review_date"}
           /\ \A i \in 1..Len(reviews_data) : \A c \in DOMAIN reviews_data[i] :
                 Preserved(reviews_data[i][c], processed.df.rows[i][c])

\* a numeric-string rating and a record without text, processed together
C10_Witness ==
    /\ stage = "processed"
    /\ reviews_data = <<RecStr4, RecNoText>>
    /\ processed.err = "none"

====
